---- MODULE Spec2Model ----
(***************************************************************************)
(* Metal Prices Dashboard (src/app.py): the session state of one browser   *)
(* session and the script pass main() that every user interaction starts.  *)
(*                                                                         *)
(* Prices are counted in cents (2000.00 is 200000) and holdings in tenths  *)
(* of an ounce, so that the widget minimum 0.01 is the integer 1.          *)
(* A script pass is the sequence of its code blocks; pc is the block the   *)
(* pass has reached, "idle" between two passes.                            *)
(***************************************************************************)
EXTENDS Integers, Sequences, FiniteSets, TLC

VARIABLES
    metal_prices,        \* st.session_state.metal_prices
    price_history,       \* st.session_state.price_history: rows in stored order
    portfolio_holdings,  \* st.session_state.portfolio_holdings
    uploaded_file,       \* the file uploader's value, kept across passes
    today,               \* datetime.now().date(), as a day number
    key_identity,        \* the installed Streamlit identifies a keyed widget by its key alone
    price_widgets,       \* per metal: the stored states {id, val} of its price input
    price_shown,         \* per metal: the id of the price input on the page, if any
    holding_widgets,     \* per metal: the stored states of its holdings input
    holding_shown,       \* per metal: the id of the holdings input on the page, if any
    pc,                  \* position of the running pass in main()
    clicked,             \* the button whose press started this pass
    loaded,              \* main's locals prices, error
    total_value,         \* main's local total_value
    breakdown,           \* main's local breakdown
    csv,                 \* main's local csv
    events,              \* number of user interactions so far
    manual               \* history: the metals whose price the user has typed since the last upload

vars == <<metal_prices, price_history, portfolio_holdings, uploaded_file, today,
          key_identity, price_widgets, price_shown, holding_widgets, holding_shown,
          pc, clicked, loaded, total_value, breakdown, csv, events, manual>>

-----------------------------------------------------------------------------
(* Bounds of the model *)

MaxEvents == 3
MaxDay == 2

-----------------------------------------------------------------------------
(* Program constants *)

DefaultGold == 200000
DefaultSilver == 2500
DefaultPlatinum == 95000
DefaultPalladium == 180000
MinPrice == 1
MinHolding == 0
MinRows == 7
MinCols == 4

Metals == {"gold", "silver", "platinum", "palladium"}
MetalOrder == <<"gold", "silver", "platinum", "palladium">>

DefaultPrices ==
    [m \in Metals |->
        CASE m = "gold" -> DefaultGold
          [] m = "silver" -> DefaultSilver
          [] m = "platinum" -> DefaultPlatinum
          [] m = "palladium" -> DefaultPalladium]

DefaultHoldings == [m \in Metals |-> 0]

-----------------------------------------------------------------------------
(* Spreadsheet cells and their coercion *)

Digits == <<"0", "1", "2", "3", "4", "5", "6", "7", "8", "9">>

IsDigit(c) == \E i \in 1..Len(Digits) : Digits[i] = c

DigitVal(c) == (CHOOSE i \in 1..Len(Digits) : Digits[i] = c) - 1

RECURSIVE DigitsVal(_)
DigitsVal(s) ==
    IF s = <<>> THEN 0
    ELSE 10 * DigitsVal(SubSeq(s, 1, Len(s) - 1)) + DigitVal(s[Len(s)])

AllDigits(s) == Len(s) >= 1 /\ \A i \in 1..Len(s) : IsDigit(s[i])

EmptyCell == [kind |-> "empty", num |-> 0, str |-> <<>>]
NumCell(n) == [kind |-> "num", num |-> n, str |-> <<>>]
StrCell(s) == [kind |-> "str", num |-> 0, str |-> s]

\* float(x) raises for text that is not a number.
FloatRaises(cell) ==
    /\ cell.kind = "str"
    /\ ~ AllDigits(cell.str)
    /\ ~ (Len(cell.str) >= 2 /\ cell.str[1] = "-" /\ AllDigits(Tail(cell.str)))

\* float(x) of a numeric cell, or of text holding a signed numeral.
Float(cell) ==
    IF cell.kind = "num" THEN cell.num
    ELSE IF cell.str[1] = "-" THEN 0 - DigitsVal(Tail(cell.str))
    ELSE DigitsVal(cell.str)

\* The text pd.read_excel reads as a missing value (its default na_values).
NaStrings == { <<"N", "/", "A">>, <<"N", "A">> }

\* pd.notna of a cell of the parsed table.
NotNa(cell) == cell.kind # "empty"

\* One cell as pd.read_excel(header=None) delivers it.
ReadCell(cell) ==
    IF cell.kind = "str" /\ cell.str \in NaStrings THEN EmptyCell ELSE cell

\* pd.read_excel(uploaded_file, header=None): the parsed table.
ReadExcel(file) == [file EXCEPT !.d = [i \in 1..4 |-> ReadCell(file.d[i])]]

NoPrices == [m \in {} |-> 0]

\* Mutant: a cell float() rejects is skipped like an empty one.
RECURSIVE StageCells_skip_malformed(_, _, _)
StageCells_skip_malformed(df, i, prices) ==
    IF i > Len(MetalOrder) THEN [status |-> "ok", prices |-> prices]
    ELSE IF ~ NotNa(df.d[i]) \/ FloatRaises(df.d[i])
         THEN StageCells_skip_malformed(df, i + 1, prices)
    ELSE StageCells_skip_malformed(df, i + 1,
            [m \in (DOMAIN prices) \cup {MetalOrder[i]} |->
                IF m = MetalOrder[i] THEN Float(df.d[i]) ELSE prices[m]])

\* The four guarded reads of D4..D7, in source order: the staged prices, or
\* the exception float() raised.
RECURSIVE StageCells(_, _, _)
StageCells(df, i, prices) ==
    IF i > Len(MetalOrder) THEN [status |-> "ok", prices |-> prices]
    ELSE IF ~ NotNa(df.d[i]) THEN StageCells(df, i + 1, prices)
    ELSE IF FloatRaises(df.d[i]) THEN [status |-> "parse", prices |-> NoPrices]
    ELSE StageCells(df, i + 1,
            [m \in (DOMAIN prices) \cup {MetalOrder[i]} |->
                IF m = MetalOrder[i] THEN Float(df.d[i]) ELSE prices[m]])

\* Mutant: only the number of columns is checked.
EnoughRowsAndCols_cols_only(df) == df.cols >= MinCols

EnoughRowsAndCols(df) == df.rows >= MinRows /\ df.cols >= MinCols

load_prices_from_excel(file) ==
    IF ~ file.readable THEN [status |-> "parse", prices |-> NoPrices]
    ELSE LET df == ReadExcel(file) IN
         IF EnoughRowsAndCols(df) THEN StageCells(df, 1, NoPrices)
         ELSE [status |-> "layout", prices |-> NoPrices]

NotLoaded == [status |-> "none", prices |-> NoPrices]

\* `if prices:` is true of a non-empty dict only.
Truthy(result) == result.status = "ok" /\ DOMAIN result.prices # {}

\* Mutant: the store is replaced wholesale, a metal not loaded gets its default.
DictUpdate_wholesale(store, prices) ==
    [m \in Metals |-> IF m \in DOMAIN prices THEN prices[m] ELSE DefaultPrices[m]]

\* dict.update
DictUpdate(store, prices) ==
    [m \in Metals |-> IF m \in DOMAIN prices THEN prices[m] ELSE store[m]]

-----------------------------------------------------------------------------
(* The history table *)

Row(d, p) ==
    [date |-> d, gold |-> p["gold"], silver |-> p["silver"],
     platinum |-> p["platinum"], palladium |-> p["palladium"]]

Dates(h) == {h[i].date : i \in 1..Len(h)}

\* Mutant: the new row is put first.
Concat_prepend(h, row) == <<row>> \o h

\* pd.concat([history, new_row], ignore_index=True)
Concat(h, row) == Append(h, row)

\* Mutant: the row of a date already present is left as it is.
SetWhereDate_keep_first(h, d, p) == h

\* .loc[mask, metal] = current_prices[metal], for the four metals
SetWhereDate(h, d, p) ==
    [i \in 1..Len(h) |-> IF h[i].date = d THEN Row(d, p) ELSE h[i]]

\* Mutant: a row is appended whether or not the date is present.
update_price_history_always_append(h, d, p) == Concat(h, Row(d, p))

update_price_history(h, d, p) ==
    IF d \notin Dates(h) THEN Concat(h, Row(d, p))
    ELSE SetWhereDate(h, d, p)

\* Mutant: the table is seeded with the default prices, as at session start.
SeedHistory_defaults(d, p) == <<Row(d, DefaultPrices)>>

SeedHistory(d, p) == <<Row(d, p)>>

\* DataFrame.to_csv(index=False): the header line, then the rows as stored.
CsvHeader == <<"date", "gold", "silver", "platinum", "palladium">>
CsvLine(r) == <<r.date, r.gold, r.silver, r.platinum, r.palladium>>
to_csv(h) == <<CsvHeader>> \o [i \in 1..Len(h) |-> CsvLine(h[i])]

-----------------------------------------------------------------------------
(* Portfolio value *)

PortfolioLine(m, holdings, prices) ==
    [Metal |-> m, Holdings |-> holdings[m], Price |-> prices[m],
     Value |-> holdings[m] * prices[m]]

\* Mutant: a metal with a holding of zero gets a line too.
RECURSIVE PortfolioLoop_keep_zero(_, _, _, _, _)
PortfolioLoop_keep_zero(i, holdings, prices, total, lines) ==
    IF i > Len(MetalOrder) THEN [total |-> total, breakdown |-> lines]
    ELSE LET m == MetalOrder[i]
             value == holdings[m] * prices[m]
         IN PortfolioLoop_keep_zero(i + 1, holdings, prices, total + value,
                IF holdings[m] >= 0
                THEN Append(lines, PortfolioLine(m, holdings, prices))
                ELSE lines)

RECURSIVE PortfolioLoop(_, _, _, _, _)
PortfolioLoop(i, holdings, prices, total, lines) ==
    IF i > Len(MetalOrder) THEN [total |-> total, breakdown |-> lines]
    ELSE LET m == MetalOrder[i]
             value == holdings[m] * prices[m]
         IN PortfolioLoop(i + 1, holdings, prices, total + value,
                IF holdings[m] > 0
                THEN Append(lines, PortfolioLine(m, holdings, prices))
                ELSE lines)

calculate_portfolio_value(holdings, prices) ==
    PortfolioLoop(1, holdings, prices, 0, <<>>)

-----------------------------------------------------------------------------
(* Number inputs *)

\* The identity of a price input: its key alone, or its parameters, of which
\* only `value` varies.
PriceWidgetId(value) == IF key_identity THEN 0 ELSE value

\* A holdings input has no key: its identity is its parameters.
HoldingWidgetId(value) == value

HasState(states, id) == \E w \in states : w.id = id

StateOf(states, id) == (CHOOSE w \in states : w.id = id).val

\* The value st.number_input returns: the stored state of this widget, or
\* `value` when the widget is new.
NumberInput(states, id, value) ==
    IF HasState(states, id) THEN StateOf(states, id) ELSE value

\* The stored states after the widget is registered in this pass.
Register(states, id, value) ==
    IF HasState(states, id) THEN states ELSE states \cup {[id |-> id, val |-> value]}

\* The stored states after the user sets the widget on the page to v.
SetState(states, id, v) ==
    {w \in states : w.id # id} \cup {[id |-> id, val |-> v]}

\* At the end of a complete pass the states of widgets not drawn are dropped.
Cull(states, shown) == {w \in states : w.id \in shown}

\* st.number_input raises when `value` is below min_value.
BelowMin(value, min_value) == value < min_value

\* The first price input that raises, or 0.
FirstRaising(prices) ==
    IF \E i \in 1..Len(MetalOrder) : BelowMin(prices[MetalOrder[i]], MinPrice)
    THEN CHOOSE i \in 1..Len(MetalOrder) :
            /\ BelowMin(prices[MetalOrder[i]], MinPrice)
            /\ \A j \in 1..(i - 1) : ~ BelowMin(prices[MetalOrder[j]], MinPrice)
    ELSE 0

-----------------------------------------------------------------------------
(* The inputs the user can give *)

NoFile ==
    [present |-> FALSE, readable |-> TRUE, rows |-> 0, cols |-> 0,
     d |-> [i \in 1..4 |-> EmptyCell]]

\* A workbook whose first sheet has the given shape and holds d in D4..D7.
Grid(rows, cols, d) ==
    [present |-> TRUE, readable |-> TRUE, rows |-> rows, cols |-> cols, d |-> d]

\* A file pd.read_excel cannot open.
Unreadable == [NoFile EXCEPT !.present = TRUE, !.readable = FALSE]

Files ==
    { Grid(7, 4, <<NumCell(250000), NumCell(3000), NumCell(100000), NumCell(220000)>>),
      Grid(8, 5, <<NumCell(250000), EmptyCell, EmptyCell, StrCell(<<"3", "0">>)>>),
      Grid(7, 4, <<NumCell(250000), StrCell(<<"x">>), NumCell(100000), EmptyCell>>),
      Grid(7, 4, <<NumCell(250000), StrCell(<<"N", "/", "A">>), NumCell(100000), NumCell(220000)>>),
      Grid(7, 4, <<EmptyCell, NumCell(3000), NumCell(-500), EmptyCell>>),
      Grid(7, 4, <<EmptyCell, EmptyCell, EmptyCell, EmptyCell>>),
      Grid(5, 4, <<StrCell(<<"x">>), NumCell(3000), EmptyCell, EmptyCell>>),
      Grid(7, 3, <<EmptyCell, EmptyCell, EmptyCell, EmptyCell>>),
      Unreadable }

\* The values the user types into a price input and a holdings input.
PriceChoices == {MinPrice, 250000}
HoldingChoices == {MinHolding, 10}

Buttons == {"update", "reset", "clear"}

-----------------------------------------------------------------------------
(* The state after the first pass of a new session *)

Init ==
    /\ key_identity \in BOOLEAN
    /\ today = 1
    /\ metal_prices = DefaultPrices
    /\ price_history = SeedHistory(today, metal_prices)
    /\ portfolio_holdings = DefaultHoldings
    /\ uploaded_file = NoFile
    /\ price_widgets =
         [m \in Metals |->
            {[id |-> PriceWidgetId(DefaultPrices[m]), val |-> DefaultPrices[m]]}]
    /\ price_shown = [m \in Metals |-> {PriceWidgetId(DefaultPrices[m])}]
    /\ holding_widgets =
         [m \in Metals |->
            {[id |-> HoldingWidgetId(DefaultHoldings[m]), val |-> DefaultHoldings[m]]}]
    /\ holding_shown = [m \in Metals |-> {HoldingWidgetId(DefaultHoldings[m])}]
    /\ pc = "idle"
    /\ clicked = "none"
    /\ loaded = NotLoaded
    /\ total_value = 0
    /\ breakdown = <<>>
    /\ csv = to_csv(price_history)
    /\ events = 0
    /\ manual = {}

-----------------------------------------------------------------------------
(* User interactions: each changes one widget and starts a pass of main() *)

StartPass ==
    /\ pc = "idle"
    /\ events < MaxEvents
    /\ events' = events + 1
    /\ pc' = "import"

UploadFile ==
    /\ StartPass
    /\ \E f \in Files : uploaded_file' = f
    /\ clicked' = "none"
    /\ manual' = {}
    /\ UNCHANGED <<metal_prices, price_history, portfolio_holdings, today, key_identity,
                   price_widgets, price_shown, holding_widgets, holding_shown,
                   loaded, total_value, breakdown, csv>>

RemoveFile ==
    /\ StartPass
    /\ uploaded_file.present
    /\ uploaded_file' = NoFile
    /\ clicked' = "none"
    /\ manual' = {}
    /\ UNCHANGED <<metal_prices, price_history, portfolio_holdings, today, key_identity,
                   price_widgets, price_shown, holding_widgets, holding_shown,
                   loaded, total_value, breakdown, csv>>

PressButton ==
    /\ StartPass
    /\ \E b \in Buttons : clicked' = b
    /\ UNCHANGED manual
    /\ UNCHANGED <<metal_prices, price_history, portfolio_holdings, uploaded_file, today,
                   key_identity, price_widgets, price_shown, holding_widgets,
                   holding_shown, loaded, total_value, breakdown, csv>>

EditPrice ==
    /\ StartPass
    /\ \E m \in Metals, v \in PriceChoices :
         /\ price_shown[m] # {}
         /\ v >= MinPrice
         /\ LET id == CHOOSE i \in price_shown[m] : TRUE IN
            /\ NumberInput(price_widgets[m], id, v) # v
            /\ price_widgets' = [price_widgets EXCEPT ![m] = SetState(@, id, v)]
            /\ manual' = manual \cup {m}
    /\ clicked' = "none"
    /\ UNCHANGED <<metal_prices, price_history, portfolio_holdings, uploaded_file, today,
                   key_identity, price_shown, holding_widgets, holding_shown,
                   loaded, total_value, breakdown, csv>>

EditHolding ==
    /\ StartPass
    /\ \E m \in Metals, v \in HoldingChoices :
         /\ holding_shown[m] # {}
         /\ v >= MinHolding
         /\ LET id == CHOOSE i \in holding_shown[m] : TRUE IN
            /\ NumberInput(holding_widgets[m], id, v) # v
            /\ holding_widgets' = [holding_widgets EXCEPT ![m] = SetState(@, id, v)]
    /\ clicked' = "none"
    /\ UNCHANGED manual
    /\ UNCHANGED <<metal_prices, price_history, portfolio_holdings, uploaded_file, today,
                   key_identity, price_widgets, price_shown, holding_shown,
                   loaded, total_value, breakdown, csv>>

\* The calendar day passes. Only the two history buttons read the clock, so
\* a change of day shows only between two passes or before the buttons of the
\* running pass are handled.
DayAdvance ==
    /\ pc \in {"idle", "buttons"}
    /\ today < MaxDay
    /\ today' = today + 1
    /\ UNCHANGED manual
    /\ UNCHANGED <<metal_prices, price_history, portfolio_holdings, uploaded_file,
                   key_identity, price_widgets, price_shown, holding_widgets,
                   holding_shown, pc, clicked, loaded, total_value, breakdown, csv,
                   events>>

-----------------------------------------------------------------------------
(* The blocks of main(), in source order *)

\* The prices after `if prices: st.session_state.metal_prices.update(prices)`.
MergeLoaded(store, result) ==
    IF Truthy(result) THEN DictUpdate(store, result.prices) ELSE store

\* if uploaded_file is not None: load, then merge or report the error.
LoadFromExcel ==
    /\ pc = "import"
    /\ loaded' = IF uploaded_file.present THEN load_prices_from_excel(uploaded_file)
                 ELSE NotLoaded
    /\ metal_prices' = MergeLoaded(metal_prices, loaded')
    /\ pc' = "buttons"
    /\ UNCHANGED manual
    /\ UNCHANGED <<price_history, portfolio_holdings, uploaded_file, today, key_identity,
                   price_widgets, price_shown, holding_widgets, holding_shown,
                   clicked, total_value, breakdown, csv, events>>

\* st.rerun() ends the pass at the pressed button.
Rerun ==
    /\ pc' = "rerun"
    /\ UNCHANGED clicked

\* The script starts again from the top; no button is pressed in the new pass.
RestartScript ==
    /\ pc = "rerun"
    /\ clicked' = "none"
    /\ pc' = "import"
    /\ UNCHANGED manual
    /\ UNCHANGED <<metal_prices, price_history, portfolio_holdings, uploaded_file, today,
                   key_identity, price_widgets, price_shown, holding_widgets,
                   holding_shown, loaded, total_value, breakdown, csv, events>>

UpdateHistoryButton ==
    /\ pc = "buttons"
    /\ clicked = "update"
    /\ price_history' = update_price_history(price_history, today, metal_prices)
    /\ Rerun
    /\ UNCHANGED manual
    /\ UNCHANGED <<metal_prices, portfolio_holdings, uploaded_file, today, key_identity,
                   price_widgets, price_shown, holding_widgets, holding_shown,
                   loaded, total_value, breakdown, csv, events>>

\* Mutant: the reset also re-seeds the history, as at session start.
ResetButton_reseeds_history ==
    /\ pc = "buttons"
    /\ clicked = "reset"
    /\ metal_prices' = DefaultPrices
    /\ price_history' = SeedHistory(today, DefaultPrices)
    /\ Rerun
    /\ UNCHANGED manual
    /\ UNCHANGED <<portfolio_holdings, uploaded_file, today, key_identity,
                   price_widgets, price_shown, holding_widgets, holding_shown,
                   loaded, total_value, breakdown, csv, events>>

ResetButton ==
    /\ pc = "buttons"
    /\ clicked = "reset"
    /\ metal_prices' = DefaultPrices
    /\ Rerun
    /\ UNCHANGED manual
    /\ UNCHANGED <<price_history, portfolio_holdings, uploaded_file, today, key_identity,
                   price_widgets, price_shown, holding_widgets, holding_shown,
                   loaded, total_value, breakdown, csv, events>>

ClearButton ==
    /\ pc = "buttons"
    /\ clicked = "clear"
    /\ price_history' = SeedHistory(today, metal_prices)
    /\ Rerun
    /\ UNCHANGED manual
    /\ UNCHANGED <<metal_prices, portfolio_holdings, uploaded_file, today, key_identity,
                   price_widgets, price_shown, holding_widgets, holding_shown,
                   loaded, total_value, breakdown, csv, events>>

NoButton ==
    /\ pc = "buttons"
    /\ clicked = "none"
    /\ pc' = "price_inputs"
    /\ UNCHANGED manual
    /\ UNCHANGED <<metal_prices, price_history, portfolio_holdings, uploaded_file, today,
                   key_identity, price_widgets, price_shown, holding_widgets,
                   holding_shown, clicked, loaded, total_value, breakdown, csv, events>>

\* The metals whose price input is drawn before the first one that raises.
Drawn(prices) ==
    IF FirstRaising(prices) = 0 THEN Metals
    ELSE {MetalOrder[j] : j \in 1..(FirstRaising(prices) - 1)}

DrawPriceInputs ==
    /\ price_widgets' =
         [m \in Metals |->
            IF m \in Drawn(metal_prices)
            THEN Register(price_widgets[m], PriceWidgetId(metal_prices[m]), metal_prices[m])
            ELSE price_widgets[m]]
    /\ price_shown' =
         [m \in Metals |->
            IF m \in Drawn(metal_prices) THEN {PriceWidgetId(metal_prices[m])} ELSE {}]

\* The values the four price inputs return.
PriceInputValues(states, prices) ==
    [m \in Metals |-> NumberInput(states[m], PriceWidgetId(prices[m]), prices[m])]

\* The four price inputs, then the four assignments to metal_prices.
ReadPriceInputs ==
    /\ pc = "price_inputs"
    /\ FirstRaising(metal_prices) = 0
    /\ DrawPriceInputs
    /\ metal_prices' = PriceInputValues(price_widgets, metal_prices)
    /\ pc' = "holdings"
    /\ UNCHANGED manual
    /\ UNCHANGED <<price_history, portfolio_holdings, uploaded_file, today, key_identity,
                   holding_widgets, holding_shown, clicked, loaded, total_value,
                   breakdown, csv, events>>

\* A price input raises: the pass ends with the exception shown on the page.
PriceInputRaises ==
    /\ pc = "price_inputs"
    /\ FirstRaising(metal_prices) # 0
    /\ DrawPriceInputs
    /\ holding_shown' = [m \in Metals |-> {}]
    /\ pc' = "idle"
    /\ UNCHANGED manual
    /\ UNCHANGED <<metal_prices, price_history, portfolio_holdings, uploaded_file, today,
                   key_identity, holding_widgets, clicked, loaded, total_value,
                   breakdown, csv, events>>

HoldingInputValues(states, holdings) ==
    [m \in Metals |-> NumberInput(states[m], HoldingWidgetId(holdings[m]), holdings[m])]

\* The four holdings inputs, then the assignment to portfolio_holdings.
ReadHoldingInputs ==
    /\ pc = "holdings"
    /\ holding_widgets' =
         [m \in Metals |->
            Register(holding_widgets[m], HoldingWidgetId(portfolio_holdings[m]),
                     portfolio_holdings[m])]
    /\ holding_shown' = [m \in Metals |-> {HoldingWidgetId(portfolio_holdings[m])}]
    /\ portfolio_holdings' = HoldingInputValues(holding_widgets, portfolio_holdings)
    /\ pc' = "portfolio"
    /\ UNCHANGED manual
    /\ UNCHANGED <<metal_prices, price_history, uploaded_file, today, key_identity,
                   price_widgets, price_shown, clicked, loaded, total_value,
                   breakdown, csv, events>>

\* total_value, breakdown = calculate_portfolio_value()
CalculatePortfolio ==
    /\ pc = "portfolio"
    /\ LET r == calculate_portfolio_value(portfolio_holdings, metal_prices) IN
         /\ total_value' = r.total
         /\ breakdown' = r.breakdown
    /\ pc' = "export"
    /\ UNCHANGED manual
    /\ UNCHANGED <<metal_prices, price_history, portfolio_holdings, uploaded_file, today,
                   key_identity, price_widgets, price_shown, holding_widgets,
                   holding_shown, clicked, loaded, csv, events>>

\* csv = price_history.to_csv(index=False); the pass then runs to its end.
ExportCsv ==
    /\ pc = "export"
    /\ csv' = to_csv(price_history)
    /\ price_widgets' = [m \in Metals |-> Cull(price_widgets[m], price_shown[m])]
    /\ holding_widgets' = [m \in Metals |-> Cull(holding_widgets[m], holding_shown[m])]
    /\ pc' = "idle"
    /\ UNCHANGED manual
    /\ UNCHANGED <<metal_prices, price_history, portfolio_holdings, uploaded_file, today,
                   key_identity, price_shown, holding_shown, clicked, loaded,
                   total_value, breakdown, events>>

Next ==
    \/ UploadFile
    \/ RemoveFile
    \/ PressButton
    \/ EditPrice
    \/ EditHolding
    \/ DayAdvance
    \/ LoadFromExcel
    \/ UpdateHistoryButton
    \/ ResetButton
    \/ ClearButton
    \/ RestartScript
    \/ NoButton
    \/ ReadPriceInputs
    \/ PriceInputRaises
    \/ ReadHoldingInputs
    \/ CalculatePortfolio
    \/ ExportCsv

Spec == Init /\ [][Next]_vars

-----------------------------------------------------------------------------
(* Properties *)

RowsOf(h, d) == {i \in 1..Len(h) : h[i].date = d}

PricesOf(row) ==
    [m \in Metals |->
        CASE m = "gold" -> row.gold
          [] m = "silver" -> row.silver
          [] m = "platinum" -> row.platinum
          [] m = "palladium" -> row.palladium]

\* C1: in every reachable state the history log holds at most one row per
\* distinct date.
C1_OneRowPerDate ==
    \A i, j \in 1..Len(price_history) :
        price_history[i].date = price_history[j].date => i = j

\* A log of several days whose row for today was written by a snapshot of
\* prices that are not the defaults.
C1_Witness ==
    /\ Len(price_history) >= 2
    /\ pc = "rerun"
    /\ clicked = "update"
    /\ \E i \in 1..Len(price_history) :
         /\ price_history[i].date = today
         /\ PricesOf(price_history[i]) # DefaultPrices

\* The target cells D4..D7 as the sheet holds them, and as pd.read_excel
\* delivers them.
RawCells(file) == file.d
ParsedCells(file) == ReadExcel(file).d

LargeEnough(file) ==
    file.present /\ file.readable /\ file.rows >= MinRows /\ file.cols >= MinCols

\* Some target cell is not empty and float() rejects it.
Malformed(cells) == \E i \in 1..4 : cells[i].kind # "empty" /\ FloatRaises(cells[i])

ImportFailsAtomically ==
    /\ loaded'.status = "parse"
    /\ metal_prices' = metal_prices

TooSmall(file) ==
    file.present /\ file.readable /\ (file.rows < MinRows \/ file.cols < MinCols)

\* C3: importing a table of fewer than 7 rows or fewer than 4 columns fails
\* with the layout error, not the parse error, whatever its cells hold, and
\* leaves the price store as it was.
C3_LayoutError ==
    [][(LoadFromExcel /\ TooSmall(uploaded_file))
        => (loaded'.status = "layout" /\ metal_prices' = metal_prices)]_vars

\* A layout error for a 5-row sheet whose D4 float() would reject, with a
\* store that holds a price the user typed.
C3_Witness ==
    /\ pc = "buttons"
    /\ loaded.status = "layout"
    /\ uploaded_file.rows < MinRows
    /\ Malformed(RawCells(uploaded_file))
    /\ metal_prices # DefaultPrices

\* C4: in every reachable state each of the four metals has exactly one
\* current price, and that price is not negative.
C4_NeverNegative ==
    /\ DOMAIN metal_prices = Metals
    /\ \A m \in Metals : metal_prices[m] >= 0

\* C5: a snapshot for a date that already has a row (from an earlier snapshot)
\* leaves exactly one row for that date, holding the prices of the later
\* snapshot; when those are the prices the row held, the log is unchanged.
C5_LastWriteWins ==
    [][(UpdateHistoryButton /\ today \in Dates(price_history))
        => /\ Cardinality(RowsOf(price_history', today)) = 1
           /\ \A i \in RowsOf(price_history', today) :
                PricesOf(price_history'[i]) = metal_prices
           /\ (\E i \in RowsOf(price_history, today) :
                 PricesOf(price_history[i]) = metal_prices)
              => price_history' = price_history]_vars

\* A second snapshot for day 1 has just replaced the prices the seed row of
\* day 1 held.
C5_Witness ==
    /\ pc = "rerun"
    /\ clicked = "update"
    /\ today = 1
    /\ Len(price_history) = 1
    /\ price_history[1].date = today
    /\ PricesOf(price_history[1]) = metal_prices
    /\ metal_prices # DefaultPrices

ImportSucceeds(file) == LargeEnough(file) /\ ~ Malformed(ParsedCells(file))

Index(m) == CHOOSE i \in 1..Len(MetalOrder) : MetalOrder[i] = m

FoundMetals(file) == {m \in Metals : ParsedCells(file)[Index(m)].kind # "empty"}

\* C6: a successful import returns, with no error, exactly the metals whose
\* target cell is not empty, each with its cell's value; the merge sets those
\* metals to these values and leaves the stored price of every other metal
\* unchanged.
C6_PartialImport ==
    [][(LoadFromExcel /\ ImportSucceeds(uploaded_file))
        => /\ loaded'.status = "ok"
           /\ DOMAIN loaded'.prices = FoundMetals(uploaded_file)
           /\ \A m \in Metals :
                IF m \in FoundMetals(uploaded_file)
                THEN /\ loaded'.prices[m] = Float(ParsedCells(uploaded_file)[Index(m)])
                     /\ metal_prices'[m] = loaded'.prices[m]
                ELSE metal_prices'[m] = metal_prices[m]]_vars

\* A successful import that found some metals and not others: a found metal
\* holds a new price, and a metal not found still holds a price the user typed.
C6_Witness ==
    /\ pc = "buttons"
    /\ loaded.status = "ok"
    /\ \E m \in DOMAIN loaded.prices :
         metal_prices[m] = loaded.prices[m] /\ metal_prices[m] # DefaultPrices[m]
    /\ \E m \in Metals \ DOMAIN loaded.prices :
         metal_prices[m] # DefaultPrices[m]

AscendingDates(text) ==
    \A i, j \in 2..Len(text) : i < j => text[i][1] < text[j][1]

\* C7: the exported text lists the rows in ascending date order, for the
\* export of the last pass and for the export of every reachable log.
C7_ExportAscending ==
    /\ AscendingDates(csv)
    /\ AscendingDates(to_csv(price_history))

\* An export of a log of MaxDay days, the last row written on the last day.
C7_Witness ==
    /\ pc = "idle"
    /\ csv = to_csv(price_history)
    /\ Len(csv) = MaxDay + 1
    /\ csv[Len(csv)][1] = MaxDay

HeldMetals(holdings) == SelectSeq(MetalOrder, LAMBDA m : holdings[m] > 0)

\* C8: the portfolio calculation returns as total the sum over the four metals
\* of holding times price and as breakdown one line for each metal held, in
\* the order gold, silver, platinum, palladium; it changes neither holdings
\* nor prices.
C8_PortfolioValue ==
    [][CalculatePortfolio
        => /\ total_value' =
                portfolio_holdings["gold"] * metal_prices["gold"]
              + portfolio_holdings["silver"] * metal_prices["silver"]
              + portfolio_holdings["platinum"] * metal_prices["platinum"]
              + portfolio_holdings["palladium"] * metal_prices["palladium"]
           /\ Len(breakdown') = Len(HeldMetals(portfolio_holdings))
           /\ \A i \in 1..Len(breakdown') :
                LET m == HeldMetals(portfolio_holdings)[i] IN
                /\ breakdown'[i].Metal = m
                /\ breakdown'[i].Holdings = portfolio_holdings[m]
                /\ breakdown'[i].Price = metal_prices[m]
                /\ breakdown'[i].Value = portfolio_holdings[m] * metal_prices[m]
           /\ portfolio_holdings' = portfolio_holdings
           /\ metal_prices' = metal_prices]_vars

\* A calculation for holdings of gold and platinum only, as in the worked
\* example: two lines, in that order.
C8_Witness ==
    /\ pc = "export"
    /\ portfolio_holdings["gold"] > 0
    /\ portfolio_holdings["silver"] = 0
    /\ portfolio_holdings["platinum"] > 0
    /\ portfolio_holdings["palladium"] = 0
    /\ Len(breakdown) = 2
    /\ breakdown[1].Metal = "gold"
    /\ breakdown[2].Metal = "platinum"
    /\ total_value = breakdown[1].Value + breakdown[2].Value

\* C9: after clear the log holds exactly one row, whose date is the current
\* date and whose prices are those of the price store when the button was
\* handled.
C9_ClearSeedsOneRow ==
    [][ClearButton
        => /\ Len(price_history') = 1
           /\ price_history'[1].date = today
           /\ PricesOf(price_history'[1]) = metal_prices]_vars

\* A clear on a later day than the seed row's, with prices that are not the
\* defaults.
C9_Witness ==
    /\ pc = "rerun"
    /\ clicked = "clear"
    /\ today > 1
    /\ Len(price_history) = 1
    /\ price_history[1].date = today
    /\ PricesOf(price_history[1]) = metal_prices
    /\ metal_prices # DefaultPrices

\* The price the page shows for a metal: the state of its price input.
DisplayedPrice(m) ==
    StateOf(price_widgets[m], CHOOSE id \in price_shown[m] : TRUE)

\* C10: when 'Update Price History' is handled while an uploaded file is
\* present, the page shows its four price inputs and the user has typed a
\* price since the upload, the row written for today holds, for each such
\* metal, the price the user typed and the page shows.
C10_ManualOverrideSnapshotted ==
    [][(/\ UpdateHistoryButton
        /\ uploaded_file.present
        /\ \A m \in Metals : price_shown[m] # {})
        => \A m \in manual :
             \A i \in RowsOf(price_history', today) :
                PricesOf(price_history'[i])[m] = DisplayedPrice(m)]_vars

\* C11: the history log is never empty, and every step other than the
\* snapshot and the clear (the import, successful or failed, the price inputs,
\* the reset, the holdings inputs, and every user interaction that starts a
\* pass) leaves every history row as it was.
C11_OnlySnapshotAndClear ==
    /\ [](Len(price_history) >= 1)
    /\ [][(UpdateHistoryButton \/ ClearButton) \/ price_history' = price_history]_vars

\* After a successful import, a typed price and a typed holding, none
\* followed by a snapshot, the log still holds only the seed row, which
\* differs from the current price store.
C11_Witness ==
    /\ pc = "idle"
    /\ uploaded_file.present
    /\ Truthy(loaded)
    /\ manual # {}
    /\ portfolio_holdings # DefaultHoldings
    /\ price_history = SeedHistory(1, DefaultPrices)
    /\ today = 1
    /\ PricesOf(price_history[1]) # metal_prices

====
